---- MODULE Spec2Model ----
(***************************************************************************)
(* Model of photo_match.py: the fingerprint bucket (ImageBucket), its      *)
(* persisted JSON store, the three-stage match resolution (ImageMatcher),  *)
(* the run of main(): create_metadata, load_bucket, match_images, and the  *)
(* date inference of ImageInfos.guess_date; and of site_constructor.py:    *)
(* the image folder (ImageFolder) and the index pages (PostIndex).         *)
(*                                                                         *)
(* Text is a sequence of one-character strings, an optional value is the   *)
(* empty sequence (Python's None) or a one-element sequence.               *)
(***************************************************************************)
EXTENDS Integers, Sequences, FiniteSets, TLC

VARIABLES
    pc,                   \* where main() is
    force_recreate_cache, \* config_site.toml, photos.force_recreate_cache
    cache,                \* the fingerprint store file: None or a document
    originals,            \* create_metadata's bucket (ImageBucket.bucket)
    added,                \* history: the images create_metadata has added
    bucket,               \* load_bucket's result: None or Some(bucket)
    matched,              \* ImageMatcher.matched
    seen,                 \* history: the target paths match_images has visited
    metadata,             \* the match output file: None or the data written
    call,                 \* a call of guess_date: None or its path and image
    guessed,              \* what the call returned: <<>> before it returns
    folder,               \* site_constructor's ImageFolder: None or its fields
    returned,             \* history: the match and thumb calls and their ends
    copied,               \* None, or the files do_copy has written
    index                 \* None, or the locals and the pages of PostIndex.write

vars == <<pc, force_recreate_cache, cache, originals, added, bucket, matched,
          seen, metadata, call, guessed, folder, returned, copied, index>>

\* the state of photo_match.py but pc, and the state of site_constructor.py
photo_vars == <<force_recreate_cache, cache, originals, added, bucket,
                matched, seen, metadata, call, guessed>>
site_vars == <<folder, returned, copied, index>>

------------------------------------------------------------------------------
\* Bounds of the model.

\* Files under photos.originals that one run traverses, at most.
MaxOriginals == 3
\* Files under static/<photos.path> that one run traverses, at most.
MaxTargets == 2
\* Side of the square perceptual hash (HashSize * HashSize bits).
HashSize == 2

------------------------------------------------------------------------------
\* Optional values.

None == <<>>
Some(x) == <<x>>
Value(o) == o[1]

RECURSIVE Concat(_)
Concat(ss) == IF ss = <<>> THEN <<>> ELSE Head(ss) \o Concat(Tail(ss))

Min2(a, b) == IF a <= b THEN a ELSE b

------------------------------------------------------------------------------
\* pathlib.Path: a path is the sequence of its parts.

\* str(path)
PathStr(path) ==
    Concat([i \in 1..Len(path) |->
              IF i = 1 THEN path[i] ELSE <<"/">> \o path[i]])

\* pathlib.Path(text): the parts between the separators, empty parts dropped
RECURSIVE PathSplit(_, _, _)
PathSplit(text, part, parts) ==
    IF text = <<>>
    THEN IF part = <<>> THEN parts ELSE Append(parts, part)
    ELSE IF Head(text) = "/"
         THEN PathSplit(Tail(text), <<>>,
                        IF part = <<>> THEN parts ELSE Append(parts, part))
         ELSE PathSplit(Tail(text), Append(part, Head(text)), parts)

PathOf(text) == PathSplit(text, <<>>, <<>>)

\* path.name
PathName(path) == IF path = <<>> THEN <<>> ELSE path[Len(path)]

------------------------------------------------------------------------------
\* imagehash: a hash is its flattened bit array; str(hash) and hex_to_hash.

HashBits == HashSize * HashSize

HexChars == <<"0", "1", "2", "3", "4", "5", "6", "7",
              "8", "9", "a", "b", "c", "d", "e", "f">>

HexValue(c) == CHOOSE v \in 0..15 : HexChars[v + 1] = c

\* int(bit_string, base) read most significant digit first
RECURSIVE DigitsToInt(_, _, _)
DigitsToInt(digits, base, acc) ==
    IF digits = <<>> THEN acc
    ELSE DigitsToInt(Tail(digits), base, acc * base + Head(digits))

\* '{:0>{width}}'.format(n) in the given base: at least width digits
RECURSIVE IntToDigits(_, _, _)
IntToDigits(n, base, width) ==
    IF n = 0 /\ width <= 0 THEN <<>>
    ELSE Append(IntToDigits(n \div base, base, width - 1), n % base)

CeilDiv(a, b) == (a + b - 1) \div b

\* int(numpy.sqrt(n))
ISqrt(n) == CHOOSE r \in 0..n : r * r <= n /\ (r + 1) * (r + 1) > n

\* str(hash): _binary_array_to_hex
HashStr(bits) ==
    LET width == CeilDiv(Len(bits), 4)
        digits == IntToDigits(DigitsToInt(bits, 2, 0), 16, width)
    IN  [i \in 1..Len(digits) |-> HexChars[digits[i] + 1]]

\* imagehash.hex_to_hash
HexToHash(hexstr) ==
    LET hash_size == ISqrt(Len(hexstr) * 4)
        n == DigitsToInt([i \in 1..Len(hexstr) |-> HexValue(hexstr[i])], 16, 0)
    IN  IntToDigits(n, 2, hash_size * hash_size)

------------------------------------------------------------------------------
\* json numbers: an int is written in decimal and read back.

JsonInt(n) == IntToDigits(n, 10, 1)
JsonIntParse(digits) == DigitsToInt(digits, 10, 0)

------------------------------------------------------------------------------
\* pendulum: a DateTime is its local calendar date and time, its UTC offset
\* and its timezone; isoformat() writes the first three, parse() reads them
\* back into a fixed-offset timezone.


isoformat(dt) == [ymd |-> dt.ymd, hms |-> dt.hms, off |-> dt.off]

Timezone(name) == [kind |-> "named", name |-> name]
FixedOffset(off) == [kind |-> "fixed", off |-> off]

\* tz='Europe/Paris' of guess_date
ReferenceZone == Timezone("Europe/Paris")

pendulum_parse(iso) ==
    [ymd |-> iso.ymd, hms |-> iso.hms, off |-> iso.off,
     tz |-> FixedOffset(iso.off)]

\* datetime.__eq__ of two aware datetimes: the same instant. Both sides here
\* carry their offset, so the same local time at the same offset.
SameInstant(a, b) == a.ymd = b.ymd /\ a.hms = b.hms /\ a.off = b.off

------------------------------------------------------------------------------
\* ImageInfos

ImageInfos(path, date, hash_, quality, size) ==
    [path |-> path, name |-> PathName(path), date |-> date, hash_ |-> hash_,
     quality |-> quality, size |-> size]

\* ImageInfos.serialize
serialize(imgi) ==
    [path |-> PathStr(imgi.path),
     name |-> imgi.name,
     date |-> IF imgi.date # None THEN Some(isoformat(Value(imgi.date)))
              ELSE None,
     hash |-> HashStr(imgi.hash_),
     quality |-> IF imgi.quality # None THEN Some(JsonInt(Value(imgi.quality)))
                 ELSE None,
     size |-> [w |-> JsonInt(imgi.size[1]), h |-> JsonInt(imgi.size[2])]]

\* ImageInfos.unserialize
unserialize(data) ==
    ImageInfos(PathOf(data.path),
               IF data.date = None THEN None
               ELSE Some(pendulum_parse(Value(data.date))),
               HexToHash(data.hash),
               IF data.quality = None THEN None
               ELSE Some(JsonIntParse(Value(data.quality))),
               <<JsonIntParse(data.size.w), JsonIntParse(data.size.h)>>)

------------------------------------------------------------------------------
\* ImageBucket: a dict from hash to list, kept in key insertion order as a
\* sequence of [h, imgis] items.

API == <<"1", ".", "0">>

EmptyBucket == <<>>

HasKey(b, h) == \E i \in 1..Len(b) : b[i].h = h
KeyIndex(b, h) == CHOOSE i \in 1..Len(b) : b[i].h = h

\* add with the list of the hash overwritten instead of extended
add_overwrite(b, imgi) ==
    LET h == imgi.hash_ IN
    IF HasKey(b, h)
    THEN [b EXCEPT ![KeyIndex(b, h)].imgis = <<imgi>>]
    ELSE Append(b, [h |-> h, imgis |-> <<imgi>>])

\* ImageBucket.add
add(b, imgi) ==
    LET h == imgi.hash_ IN
    IF HasKey(b, h)
    THEN [b EXCEPT ![KeyIndex(b, h)].imgis = Append(@, imgi)]
    ELSE Append(b, [h |-> h, imgis |-> <<imgi>>])

\* ImageBucket.get: None or the list
get(b, h) == IF HasKey(b, h) THEN Some(b[KeyIndex(b, h)].imgis) ELSE None

\* itertools.chain.from_iterable(self.bucket.values())
BucketValues(b) == Concat([i \in 1..Len(b) |-> b[i].imgis])

\* save that writes one image per hash, the first of each list
save_first_of_group(b) ==
    [version |-> API,
     images |-> [i \in 1..Len(b) |-> serialize(b[i].imgis[1])]]

\* ImageBucket.save: the document written to the store file
save(b) ==
    LET imgs == BucketValues(b) IN
    [version |-> API,
     images |-> [i \in 1..Len(imgs) |-> serialize(imgs[i])]]

RECURSIVE AddAll(_, _)
AddAll(b, images) ==
    IF images = <<>> THEN b
    ELSE AddAll(add(b, unserialize(Head(images))), Tail(images))

\* load without the version check
load_unchecked(data) ==
    [raised |-> FALSE, self |-> AddAll(EmptyBucket, data.images)]

\* ImageBucket.load: the version check, then one add per stored image.
\* The result is "raised" or the bucket.
load(data) ==
    IF ~(data.version = API)
    THEN [raised |-> TRUE, self |-> EmptyBucket]
    ELSE [raised |-> FALSE, self |-> AddAll(EmptyBucket, data.images)]

------------------------------------------------------------------------------
\* jellyfish.damerau_levenshtein_distance: the unrestricted distance
\* (insertions, deletions, substitutions, transpositions of adjacent
\* characters, with edits allowed between the transposed characters).

\* the last row before i whose character of a is c, 0 when none
LastRow(a, i, c) ==
    LET rows == {k \in 1..(i - 1) : a[k] = c}
    IN  IF rows = {} THEN 0 ELSE CHOOSE k \in rows : \A x \in rows : x <= k

damerau_levenshtein_distance(a, b) ==
    LET d[i \in 0..Len(a), j \in 0..Len(b)] ==
            IF i = 0 THEN j
            ELSE IF j = 0 THEN i
            ELSE LET cost == IF a[i] = b[j] THEN 0 ELSE 1
                     k == LastRow(a, i, b[j])
                     l == LastRow(b, j, a[i])
                     edit == Min2(d[i - 1, j - 1] + cost,
                                  Min2(d[i, j - 1] + 1, d[i - 1, j] + 1))
                 IN  IF k > 0 /\ l > 0
                     THEN Min2(edit,
                               d[k - 1, l - 1] + (i - k - 1) + 1 + (j - l - 1))
                     ELSE edit
    IN  d[Len(a), Len(b)]

------------------------------------------------------------------------------
\* ImageMatcher

\* match, "reduce by best quality": the loop over the candidates
RECURSIVE BestQuality(_, _, _)
BestQuality(candidates, best_size, best_candidates) ==
    IF candidates = <<>> THEN best_candidates
    ELSE LET candidate == Head(candidates)
             size == candidate.size[1] * candidate.size[2]
         IN  IF size > best_size
             THEN BestQuality(Tail(candidates), size, <<candidate>>)
             ELSE IF size = best_size
             THEN BestQuality(Tail(candidates), best_size,
                              Append(best_candidates, candidate))
             ELSE BestQuality(Tail(candidates), best_size, best_candidates)

\* the distance every name is nearer than
InitialBestDistance == 1000000

\* match, "find best filename match": the loop over the best candidates
RECURSIVE BestName(_, _, _, _)
BestName(name, candidates, best_distance, best_candidates_step2) ==
    IF candidates = <<>> THEN best_candidates_step2
    ELSE LET candidate == Head(candidates)
             distance == damerau_levenshtein_distance(name, candidate.name)
         IN  IF distance < best_distance
             THEN BestName(name, Tail(candidates), distance, <<candidate>>)
             ELSE IF distance = best_distance
             THEN BestName(name, Tail(candidates), best_distance,
                           Append(best_candidates_step2, candidate))
             ELSE BestName(name, Tail(candidates), best_distance,
                           best_candidates_step2)

\* the quality loop with best_size never updated
RECURSIVE BestQualityStale(_, _)
BestQualityStale(candidates, best_candidates) ==
    IF candidates = <<>> THEN best_candidates
    ELSE LET candidate == Head(candidates)
             size == candidate.size[1] * candidate.size[2]
         IN  IF size > 0
             THEN BestQualityStale(Tail(candidates), <<candidate>>)
             ELSE BestQualityStale(Tail(candidates),
                                   Append(best_candidates, candidate))

reduce_by_best_quality_stale(candidates) == BestQualityStale(candidates, <<>>)

reduce_by_best_quality(candidates) == BestQuality(candidates, 0, <<>>)

\* the name stage left out: every best-quality candidate is kept
find_best_filename_match_skipped(name, best_candidates) == best_candidates

find_best_filename_match(name, best_candidates) ==
    BestName(name, best_candidates, InitialBestDistance, <<>>)

\* match with a single candidate taken only when it has the target's name
match_single_by_name(b, imgi) ==
    LET candidates == get(b, imgi.hash_) IN
    IF candidates = None THEN None
    ELSE IF Len(Value(candidates)) = 1
    THEN (IF Value(candidates)[1].name = imgi.name
          THEN Some(Value(candidates)[1]) ELSE None)
    ELSE LET best_candidates == reduce_by_best_quality(Value(candidates)) IN
         IF Len(best_candidates) = 1 THEN Some(best_candidates[1])
         ELSE Some(find_best_filename_match(imgi.name, best_candidates)[1])

\* match returning the last of the candidates that both stages leave
match_last_remaining(b, imgi) ==
    LET candidates == get(b, imgi.hash_) IN
    IF candidates = None THEN None
    ELSE IF Len(Value(candidates)) = 1 THEN Some(Value(candidates)[1])
    ELSE LET best_candidates == reduce_by_best_quality(Value(candidates)) IN
         IF Len(best_candidates) = 1 THEN Some(best_candidates[1])
         ELSE LET best_candidates_step2 ==
                      find_best_filename_match(imgi.name, best_candidates)
              IN  Some(best_candidates_step2[Len(best_candidates_step2)])

\* ImageMatcher.match: None or the candidate returned
match(b, imgi) ==
    LET candidates == get(b, imgi.hash_) IN
    IF candidates = None THEN None
    ELSE IF Len(Value(candidates)) = 1 THEN Some(Value(candidates)[1])
    ELSE LET best_candidates == reduce_by_best_quality(Value(candidates)) IN
         IF Len(best_candidates) = 1 THEN Some(best_candidates[1])
         ELSE Some(find_best_filename_match(imgi.name, best_candidates)[1])

SerializedMatch(target, m, date) ==
    [date |-> IF date # None THEN Some(isoformat(Value(date))) ELSE None,
     hash |-> HashStr(target.hash_),
     path_target |-> PathStr(target.path),
     path_matched |-> IF m # None THEN Some(PathStr(Value(m).path))
                      ELSE None,
     size_target |-> [w |-> target.size[1], h |-> target.size[2]],
     size_matched |-> IF m # None
                      THEN Some([w |-> Value(m).size[1],
                                 h |-> Value(m).size[2]])
                      ELSE None]

\* _serialize1 with no date for an unmatched target
_serialize1_unmatched_undated(target, m) ==
    SerializedMatch(target, m,
                    IF m # None
                    THEN (IF Value(m).date # None THEN Value(m).date
                          ELSE target.date)
                    ELSE None)

\* _serialize1 with the target's date first
_serialize1_target_first(target, m) ==
    SerializedMatch(target, m,
                    IF m # None
                    THEN (IF target.date # None THEN target.date
                          ELSE Value(m).date)
                    ELSE target.date)

\* ImageMatcher._serialize1
_serialize1(target, m) ==
    LET date == IF m # None
                THEN (IF Value(m).date # None THEN Value(m).date
                      ELSE target.date)
                ELSE target.date
    IN  [date |-> IF date # None THEN Some(isoformat(Value(date))) ELSE None,
         hash |-> HashStr(target.hash_),
         path_target |-> PathStr(target.path),
         path_matched |-> IF m # None THEN Some(PathStr(Value(m).path))
                          ELSE None,
         size_target |-> [w |-> target.size[1], h |-> target.size[2]],
         size_matched |-> IF m # None
                          THEN Some([w |-> Value(m).size[1],
                                     h |-> Value(m).size[2]])
                          ELSE None]

\* ImageMatcher.serialize
matcher_serialize(ms) ==
    [i \in 1..Len(ms) |-> _serialize1(ms[i][1], ms[i][2])]

\* match_add that records matched targets only
match_add_matched_only(ms, b, imgi) ==
    IF match(b, imgi) = None THEN ms ELSE Append(ms, <<imgi, match(b, imgi)>>)

\* ImageMatcher.match_add: match, then add
match_add(ms, b, imgi) == Append(ms, <<imgi, match(b, imgi)>>)

------------------------------------------------------------------------------
\* Text of dates: the two regular expressions of guess_date and the text
\* pendulum.parse reads.

IsDigit(c) == \E v \in 0..9 : HexChars[v + 1] = c

\* int(text) of decimal digits
Number(text) == DigitsToInt([i \in 1..Len(text) |-> HexValue(text[i])], 10, 0)

\* text.replace(c, "")
Without(text, c) == LET Keep(x) == x # c IN SelectSeq(text, Keep)

\* A pattern is a sequence of characters in which "#" stands for \d.
\* Whether the pattern matches the text from position p on.
MatchesAt(text, p, pat) ==
    /\ p + Len(pat) - 1 <= Len(text)
    /\ \A k \in 1..Len(pat) :
          IF pat[k] = "#" THEN IsDigit(text[p + k - 1])
          ELSE text[p + k - 1] = pat[k]

\* (?P<date1>\d{4}-\d{2}-\d{2}) at (?P<time1>\d{2}\.\d{2}\.\d{2})
PatDate1Time1 ==
    <<"#", "#", "#", "#", "-", "#", "#", "-", "#", "#", " ", "a", "t", " ",
    "#", "#", ".", "#", "#", ".", "#", "#">>
\* (?P<date2>\d{8})_(?P<time2>\d{6}), the optional "_" taken
PatDate2UnderTime2 ==
    <<"#", "#", "#", "#", "#", "#", "#", "#", "_", "#", "#", "#", "#", "#",
    "#">>
\* (?P<date2>\d{8})(?P<time2>\d{6}), the optional "_" left out
PatDate2Time2 ==
    <<"#", "#", "#", "#", "#", "#", "#", "#", "#", "#", "#", "#", "#", "#">>
\* (?P<date3>\d{8})
PatDate3 ==
    <<"#", "#", "#", "#", "#", "#", "#", "#">>
\* (?P<date>\d{4}_\d{2}_\d{2})
PatFolderDate ==
    <<"#", "#", "#", "#", "_", "#", "#", "_", "#", "#">>

Part(text, from, to) == SubSeq(text, from, to)

\* _re_match_date_in_filename at position p: None, or the match with its end
\* and m["date1"] or m["date2"] or m["date3"], m["time1"] or m["time2"] or ""
FilenameMatchAt(text, p) ==
    IF MatchesAt(text, p, PatDate1Time1)
    THEN Some([end |-> p + 21, date |-> Part(text, p, p + 9),
               time |-> Part(text, p + 14, p + 21)])
    ELSE IF MatchesAt(text, p, PatDate2UnderTime2)
    THEN Some([end |-> p + 14, date |-> Part(text, p, p + 7),
               time |-> Part(text, p + 9, p + 14)])
    ELSE IF MatchesAt(text, p, PatDate2Time2)
    THEN Some([end |-> p + 13, date |-> Part(text, p, p + 7),
               time |-> Part(text, p + 8, p + 13)])
    ELSE IF MatchesAt(text, p, PatDate3)
    THEN Some([end |-> p + 7, date |-> Part(text, p, p + 7), time |-> <<>>])
    ELSE None

\* list(_re_match_date_in_filename.finditer(text)): the matches from left to
\* right, none overlapping another
RECURSIVE FindIter(_, _)
FindIter(text, p) ==
    IF p > Len(text) THEN <<>>
    ELSE LET m == FilenameMatchAt(text, p) IN
         IF m = None THEN FindIter(text, p + 1)
         ELSE <<Value(m)>> \o FindIter(text, Value(m).end + 1)

\* _re_match_date_in_folder.search(text): None or m["date"] of the leftmost
\* match
RECURSIVE FolderSearch(_, _)
FolderSearch(text, p) ==
    IF p > Len(text) THEN None
    ELSE IF MatchesAt(text, p, PatFolderDate)
    THEN Some(Part(text, p, p + 9))
    ELSE FolderSearch(text, p + 1)

IsLeap(y) == (y % 4 = 0 /\ y % 100 # 0) \/ y % 400 = 0

DaysInMonth(y, m) ==
    IF m = 2 THEN (IF IsLeap(y) THEN 29 ELSE 28)
    ELSE IF m \in {4, 6, 9, 11} THEN 30 ELSE 31

\* datetime's validation of the fields
ValidDate(ymd) ==
    /\ ymd[1] >= 1
    /\ ymd[2] \in 1..12
    /\ ymd[3] >= 1 /\ ymd[3] <= DaysInMonth(ymd[1], ymd[2])

ValidTime(hms) == hms[1] <= 23 /\ hms[2] <= 59 /\ hms[3] <= 59

\* the day of the week of a date, 0 for Sunday
DayOfWeek(y, m, d) ==
    LET t == <<0, 3, 2, 5, 0, 3, 5, 1, 4, 6, 2, 4>>
        yy == IF m < 3 THEN y - 1 ELSE y
    IN  (yy + yy \div 4 - yy \div 100 + yy \div 400 + t[m] + d) % 7

LastSunday(y, m) == 31 - DayOfWeek(y, m, 31)

\* the UTC offset of Europe/Paris, in hours, at a local time: summer time
\* from the last Sunday of March to the last Sunday of October
ParisOffset(ymd, hms) ==
    LET y == ymd[1]
        m == ymd[2]
        d == ymd[3]
    IN  IF \/ (m > 3 /\ m < 10)
           \/ (m = 3 /\ (d > LastSunday(y, 3)
                         \/ (d = LastSunday(y, 3) /\ hms[1] >= 2)))
           \/ (m = 10 /\ (d < LastSunday(y, 10)
                          \/ (d = LastSunday(y, 10) /\ hms[1] < 3)))
        THEN 2 ELSE 1

\* the texts pendulum reads as a date or as a date and a time: the compact
\* ISO 8601 forms YYYYMMDD and YYYYMMDD HHMMSS, and the common form
\* YYYY:MM:DD HH:MM:SS of the EXIF tag. A date written YYYY_MM_DD is none of
\* the forms its strict parser reads.
TextDate ==
    <<"#", "#", "#", "#", "#", "#", "#", "#">>
TextDateTime ==
    <<"#", "#", "#", "#", "#", "#", "#", "#", " ", "#", "#", "#", "#", "#",
    "#">>
TextCommonDateTime ==
    <<"#", "#", "#", "#", ":", "#", "#", ":", "#", "#", " ", "#", "#", ":",
    "#", "#", ":", "#", "#">>

Whole(text, pat) == Len(text) = Len(pat) /\ MatchesAt(text, 1, pat)

\* the fields <<ymd, hms>> read from a text, None when pendulum's parsers
\* match none of its forms
TextFields(text) ==
    IF Whole(text, TextDate)
    THEN Some(<<<<Number(Part(text, 1, 4)), Number(Part(text, 5, 6)),
                  Number(Part(text, 7, 8))>>, <<0, 0, 0>>>>)
    ELSE IF Whole(text, TextDateTime)
    THEN Some(<<<<Number(Part(text, 1, 4)), Number(Part(text, 5, 6)),
                  Number(Part(text, 7, 8))>>,
                <<Number(Part(text, 10, 11)), Number(Part(text, 12, 13)),
                  Number(Part(text, 14, 15))>>>>)
    ELSE IF Whole(text, TextCommonDateTime)
    THEN Some(<<<<Number(Part(text, 1, 4)), Number(Part(text, 6, 7)),
                  Number(Part(text, 9, 10))>>,
                <<Number(Part(text, 12, 13)), Number(Part(text, 15, 16)),
                  Number(Part(text, 18, 19))>>>>)
    ELSE None

\* try: pendulum.parse(text, tz='Europe/Paris') except (ParserError,
\* ValueError): None when it raises, else the DateTime
parse_or_pass(text) ==
    LET f == TextFields(text) IN
    IF f = None THEN None
    ELSE IF ~(ValidDate(Value(f)[1]) /\ ValidTime(Value(f)[2])) THEN None
    ELSE Some([ymd |-> Value(f)[1], hms |-> Value(f)[2],
               off |-> ParisOffset(Value(f)[1], Value(f)[2]),
               tz |-> ReferenceZone])

------------------------------------------------------------------------------
\* ImageInfos.guess_date

\* exif.get(306) of image._getexif(): None without an image, without exif
\* or without the tag
exif_date_of(image) ==
    IF image = None THEN None
    ELSE IF Value(image).exif = None THEN None
    ELSE Value(Value(image).exif).tag306

\* if exif_date: the parsed text of the tag, None when there is none, when
\* it is empty or when pendulum raises on it
metadata_date(image) ==
    LET exif_date == exif_date_of(image) IN
    IF exif_date # None /\ Value(exif_date) # <<>>
    THEN parse_or_pass(Value(exif_date))
    ELSE None

\* the text handed to pendulum for a filename match
MatchText(m) ==
    LET date == Without(m.date, "-")
        time == Without(m.time, ".")
    IN  IF time # <<>> THEN date \o <<" ">> \o time ELSE date

Reversed(seq) == [i \in 1..Len(seq) |-> seq[Len(seq) + 1 - i]]

\* the loop over the filename's matches: the first that parses
RECURSIVE FirstMatchDate(_)
FirstMatchDate(matches) ==
    IF matches = <<>> THEN None
    ELSE LET date == parse_or_pass(MatchText(Head(matches))) IN
         IF date # None THEN date ELSE FirstMatchDate(Tail(matches))

\* the matches tried from the first of the name to the last
filename_date_forward(name) == FirstMatchDate(FindIter(name, 1))

\* only the last match is tried: no fall through to an earlier match
filename_date_last_only(name) ==
    LET matches == FindIter(name, 1) IN
    IF matches = <<>> THEN None
    ELSE parse_or_pass(MatchText(matches[Len(matches)]))

\* for m in reversed(matches)
filename_date(name) == FirstMatchDate(Reversed(FindIter(name, 1)))

\* the loop over the path's parts: the first whose match parses
RECURSIVE FirstPartDate(_)
FirstPartDate(parts) ==
    IF parts = <<>> THEN None
    ELSE LET m == FolderSearch(Head(parts), 1)
             date == IF m = None THEN None ELSE parse_or_pass(Value(m))
         IN  IF date # None THEN date ELSE FirstPartDate(Tail(parts))

\* for p in reversed(path.parts)
folder_date(path) == FirstPartDate(Reversed(path))

\* guess_date with the filename before the embedded metadata
guess_date_filename_first(path, image) ==
    IF filename_date(PathName(path)) # None THEN filename_date(PathName(path))
    ELSE IF metadata_date(image) # None THEN metadata_date(image)
    ELSE folder_date(path)

\* ImageInfos.guess_date: None or the date
guess_date(path, image) ==
    IF metadata_date(image) # None THEN metadata_date(image)
    ELSE IF filename_date(PathName(path)) # None
    THEN filename_date(PathName(path))
    ELSE folder_date(path)

------------------------------------------------------------------------------
\* The files of a run: what ImageInfos.make reads from each.

\* perceptual hashes: one with leading zero bits, all ones, and one that no
\* original has
HashA == [i \in 1..HashBits |-> IF i = HashBits THEN 1 ELSE 0]
HashB == [i \in 1..HashBits |-> 1]
HashC == [i \in 1..HashBits |-> IF i = 1 THEN 1 ELSE 0]

Date(ymd, hms, off) ==
    [ymd |-> ymd, hms |-> hms, off |-> off, tz |-> ReferenceZone]

Date2021 == Date(<<2021, 3, 1>>, <<0, 0, 0>>, 1)
Date2020 == Date(<<2020, 1, 1>>, <<14, 32, 10>>, 1)

NameABC == <<"a", "b", "c">>
NameBB == <<"b", "b">>
NameCA == <<"c", "a">>

\* the i-th file rglob yields under a root: each path is yielded once
FilePath(root, i, name) == <<<<root>>, <<HexChars[i + 1]>>, name>>

\* originals that differ in hash, date and quality: <<hash, date, quality>>
OriginalKinds ==
    {<<HashA, None, None>>, <<HashA, Some(Date2021), Some(90)>>,
     <<HashA, Some(Date2021), None>>, <<HashB, None, Some(90)>>,
     <<HashB, Some(Date2021), None>>}

OriginalFiles(i) ==
    {ImageInfos(FilePath("o", i, NameABC), k[2], k[1], k[3], <<40, 30>>) :
        k \in OriginalKinds}

\* targets that differ in hash and date
TargetFiles(i) ==
    {ImageInfos(FilePath("t", i, NameABC), date, h, None, <<8, 6>>) :
        date \in {None, Some(Date2020)}, h \in {HashA, HashC}}

\* originals that collide on one hash and differ in size and name, and one
\* original of another hash
CollidingFiles(i) ==
    {ImageInfos(FilePath("o", i, name), None, HashA, None, size) :
        name \in {NameABC, NameBB},
        size \in {<<0, 3>>, <<1, 2>>, <<2, 2>>}}
    \cup {ImageInfos(FilePath("o", i, NameCA), None, HashB, None, <<0, 0>>)}

\* targets of one hash that differ in name
NamedTargets(i) ==
    {ImageInfos(FilePath("t", i, name), None, HashA, None, <<1, 1>>) :
        name \in {NameABC, NameCA}}

\* a store file left by an earlier run, of this or of another version
OldAPI == <<"0", ".", "9">>

StoredImages ==
    LET x == serialize(ImageInfos(FilePath("o", 1, NameABC), Some(Date2021),
                                  HashA, None, <<2, 2>>))
        y == serialize(ImageInfos(FilePath("o", 2, NameBB), None,
                                  HashA, Some(90), <<2, 2>>))
    IN  {<<>>, <<x>>, <<x, y>>}

StoreFiles ==
    {[version |-> v, images |-> imgs] :
        v \in {API, OldAPI}, imgs \in StoredImages}

------------------------------------------------------------------------------
\* main()

Init ==
    /\ pc = "main"
    /\ cache \in {None} \cup {Some(d) : d \in StoreFiles}
    /\ force_recreate_cache \in BOOLEAN
    /\ originals = EmptyBucket
    /\ added = <<>>
    /\ bucket = None
    /\ matched = <<>>
    /\ seen = <<>>
    /\ metadata = None
    /\ call = None
    /\ guessed = <<>>
    /\ folder = None
    /\ returned = <<>>
    /\ copied = None
    /\ index = None

\* if (not os.path.exists(cache)) or force_recreate_cache
main_start ==
    /\ pc = "main"
    /\ pc' = IF cache = None \/ force_recreate_cache
             THEN "create_metadata" ELSE "load_bucket"
    /\ UNCHANGED site_vars
    /\ UNCHANGED <<call, guessed, force_recreate_cache, cache, originals,
                   added, bucket, matched, seen, metadata>>

\* create_metadata: bucket.add_path(f) for the next file
create_metadata_add_path(imgi) ==
    /\ pc = "create_metadata"
    /\ Len(added) < MaxOriginals
    /\ originals' = add(originals, imgi)
    /\ added' = Append(added, imgi)
    /\ UNCHANGED site_vars
    /\ UNCHANGED <<call, guessed, pc, force_recreate_cache, cache, bucket,
                   matched, seen, metadata>>

\* create_metadata: Image.open or phash raises on the next file
create_metadata_unreadable ==
    /\ pc = "create_metadata"
    /\ Len(added) < MaxOriginals
    /\ pc' = "create_metadata_raised"
    /\ UNCHANGED site_vars
    /\ UNCHANGED <<call, guessed, force_recreate_cache, cache, originals,
                   added, bucket, matched, seen, metadata>>

\* create_metadata: no file is left, bucket.save(savefile)
create_metadata_save ==
    /\ pc = "create_metadata"
    /\ cache' = Some(save(originals))
    /\ pc' = "load_bucket"
    /\ UNCHANGED site_vars
    /\ UNCHANGED <<call, guessed, force_recreate_cache, originals, added,
                   bucket, matched, seen, metadata>>

\* load_bucket: ImageBucket.load(savefile); its ValueError ends main
load_bucket ==
    /\ pc = "load_bucket"
    /\ LET r == load(Value(cache)) IN
       IF r.raised
       THEN pc' = "load_bucket_raised" /\ bucket' = None
       ELSE pc' = "match_images" /\ bucket' = Some(r.self)
    /\ UNCHANGED site_vars
    /\ UNCHANGED <<call, guessed, force_recreate_cache, cache, originals,
                   added, matched, seen, metadata>>

\* match_images: matcher.match_add_path(f) for the next file
match_images_add_path(imgi) ==
    /\ pc = "match_images"
    /\ Len(seen) < MaxTargets
    /\ matched' = match_add(matched, Value(bucket), imgi)
    /\ seen' = Append(seen, imgi.path)
    /\ UNCHANGED site_vars
    /\ UNCHANGED <<call, guessed, pc, force_recreate_cache, cache, originals,
                   added, bucket, metadata>>

\* match_images: Image.open or phash raises on the next file
match_images_unreadable ==
    /\ pc = "match_images"
    /\ Len(seen) < MaxTargets
    /\ pc' = "match_images_raised"
    /\ UNCHANGED site_vars
    /\ UNCHANGED <<call, guessed, force_recreate_cache, cache, originals,
                   added, bucket, matched, seen, metadata>>

\* match_images: no file is left, the match output is written
match_images_write ==
    /\ pc = "match_images"
    /\ metadata' = Some([version |-> <<"1", ".", "0">>,
                         root |-> <<"t">>,
                         matches |-> matcher_serialize(matched)])
    /\ pc' = "exit"
    /\ UNCHANGED site_vars
    /\ UNCHANGED <<call, guessed, force_recreate_cache, cache, originals,
                   added, bucket, matched, seen>>

\* a run over originals and targets that differ in hash, date and quality
Next ==
    \/ main_start
    \/ \E imgi \in OriginalFiles(Len(added) + 1) :
          create_metadata_add_path(imgi)
    \/ create_metadata_unreadable
    \/ create_metadata_save
    \/ load_bucket
    \/ \E imgi \in TargetFiles(Len(seen) + 1) : match_images_add_path(imgi)
    \/ match_images_unreadable
    \/ match_images_write

Spec == Init /\ [][Next]_vars

\* a run over originals that collide and differ in size and name
NextTieBreak ==
    \/ main_start
    \/ \E imgi \in CollidingFiles(Len(added) + 1) :
          create_metadata_add_path(imgi)
    \/ create_metadata_unreadable
    \/ create_metadata_save
    \/ load_bucket
    \/ \E imgi \in NamedTargets(Len(seen) + 1) : match_images_add_path(imgi)
    \/ match_images_unreadable
    \/ match_images_write

SpecTieBreak == Init /\ [][NextTieBreak]_vars

------------------------------------------------------------------------------
\* Calls of guess_date on its own (ImageProcessor.add_urls calls it so, with
\* no image when the file does not exist).

ExifValid ==
    <<"2", "0", "2", "1", ":", "0", "3", ":", "0", "1", " ", "1", "2", ":",
      "0", "0", ":", "0", "0">>
ExifBadMonth ==
    <<"2", "0", "2", "1", ":", "1", "3", ":", "0", "1", " ", "1", "2", ":",
      "0", "0", ":", "0", "0">>

\* image: None, or an image whose _getexif() is None or a dict whose tag 306
\* is absent, empty, a date or a text with month 13
GuessImages ==
    {None, Some([exif |-> None])}
    \cup {Some([exif |-> Some([tag306 |-> t])]) :
            t \in {None, Some(<<>>), Some(ExifValid), Some(ExifBadMonth)}}

NameMisc == <<"m", ".", "j", "p", "g">>
NameDate == <<"2", "0", "2", "0", "0", "1", "0", "1", ".", "j", "p", "g">>
NameDateTime ==
    <<"2", "0", "2", "0", "0", "1", "0", "1", "_", "1", "4", "3", "2", "1",
      "0", ".", "j", "p", "g">>
NameDateAtTime ==
    <<"2", "0", "2", "0", "-", "0", "1", "-", "0", "1", " ", "a", "t", " ",
      "1", "4", ".", "3", "2", ".", "1", "0", ".", "j", "p", "g">>
NameBadMonth == <<"2", "0", "2", "0", "1", "3", "0", "1", ".", "j", "p", "g">>
NameTwoDates ==
    <<"2", "0", "1", "9", "0", "5", "0", "2", "-", "2", "0", "2", "0", "0",
      "1", "0", "1", ".", "j", "p", "g">>
NameDateThenBadMonth ==
    <<"2", "0", "1", "9", "0", "5", "0", "2", "-", "2", "0", "2", "0", "1",
      "3", "0", "1", ".", "j", "p", "g">>
NameFolderDate ==
    <<"2", "0", "1", "8", "_", "0", "5", "_", "0", "2", ".", "j", "p", "g">>

GuessNames ==
    {NameMisc, NameDate, NameDateTime, NameDateAtTime,
     NameBadMonth, NameTwoDates, NameDateThenBadMonth, NameFolderDate}

GuessFolders ==
    {<<<<"p">>>>,
     <<<<"2", "0", "1", "9", "_", "0", "5", "_", "0", "2">>>>,
     <<<<"2", "0", "1", "7", "_", "0", "5", "_", "0", "2">>,
       <<"2", "0", "1", "9", "_", "1", "3", "_", "0", "2">>>>,
     <<<<"2", "0", "1", "6", "0", "1", "0", "1">>>>}

GuessCalls ==
    {[path |-> Append(folders, name), image |-> image] :
        folders \in GuessFolders, name \in GuessNames, image \in GuessImages}

InitGuessDate ==
    /\ pc = "guess_date"
    /\ cache = None
    /\ force_recreate_cache = TRUE
    /\ originals = EmptyBucket
    /\ added = <<>>
    /\ bucket = None
    /\ matched = <<>>
    /\ seen = <<>>
    /\ metadata = None
    /\ call \in {Some(c) : c \in GuessCalls}
    /\ guessed = <<>>
    /\ folder = None
    /\ returned = <<>>
    /\ copied = None
    /\ index = None

\* date = ImageInfos.guess_date(path, image)
guess_date_call ==
    /\ pc = "guess_date"
    /\ guessed' = <<guess_date(Value(call).path, Value(call).image)>>
    /\ pc' = "guess_date_returned"
    /\ UNCHANGED site_vars
    /\ UNCHANGED <<force_recreate_cache, cache, originals, added, bucket,
                   matched, seen, metadata, call>>

NextGuessDate == guess_date_call

SpecGuessDate == InitGuessDate /\ [][NextGuessDate]_vars

------------------------------------------------------------------------------
\* site_constructor.py: ImageFolder.

\* A dict is the sequence of its items [k, v] in the order of insertion.
DictHas(d, k) == \E i \in 1..Len(d) : d[i].k = k

\* d[k] of a dict that has k
DictItem(d, k) == d[CHOOSE i \in 1..Len(d) : d[i].k = k].v

\* d.get(k)
DictGet(d, k) == IF DictHas(d, k) THEN Some(DictItem(d, k)) ELSE None

\* d[k] = v
DictSet(d, k, v) ==
    IF DictHas(d, k)
    THEN [i \in 1..Len(d) |-> IF d[i].k = k THEN [k |-> k, v |-> v] ELSE d[i]]
    ELSE Append(d, [k |-> k, v |-> v])

\* parts[-2:]
LastTwo(parts) ==
    IF Len(parts) <= 2 THEN parts ELSE SubSeq(parts, Len(parts) - 1, Len(parts))

\* "{:03d}.jpg".format(n)
CounterName(n) ==
    LET digits == IntToDigits(n, 10, 3) IN
    [i \in 1..Len(digits) |-> HexChars[digits[i] + 1]]
        \o <<".", "j", "p", "g">>

\* ImageFolder.__init__
ImageFolder_init(output_folder, assets_folder, max_img_size, max_file_size) ==
    [output_folder |-> output_folder,
     assets_folder |-> assets_folder,
     max_img_size |-> max_img_size,
     max_file_size |-> max_file_size,
     image_bank |-> <<>>,
     images |-> <<>>,
     thumbs |-> <<>>,
     counters |-> <<>>]

\* the loop of make over metadata["matches"]
RECURSIVE BankOf(_, _)
BankOf(matches, image_bank) ==
    IF matches = <<>> THEN image_bank
    ELSE LET data == Head(matches)
             path_matched ==
                 IF data.path_matched # None /\ Value(data.path_matched) # <<>>
                 THEN Value(data.path_matched)
                 ELSE data.path_target
             p == PathOf(data.path_target)
             idx == PathStr(LastTwo(p))
         IN  BankOf(Tail(matches), DictSet(image_bank, idx, path_matched))

\* ImageFolder.make
ImageFolder_make(data, output, assets, max_img_size, max_file_size) ==
    [ImageFolder_init(output, assets, max_img_size, max_file_size)
        EXCEPT !.image_bank = BankOf(data.matches, <<>>)]

\* matched if matched else path, with whether matched is true
SourceOf(self, path) ==
    LET idx == PathStr(LastTwo(PathOf(path)))
        m == DictGet(self.image_bank, idx)
        found == m # None /\ Value(m) # <<>>
    IN  [matched |-> found, source |-> IF found THEN Value(m) ELSE path]

\* (self.max_file_size is None) and (self.max_img_size is not None)
KeepsNames(self) == self.max_file_size = None /\ self.max_img_size # None

\* ImageFolder.match: the folder after the call and the destination returned
ImageFolder_match(self, path, folder_name) ==
    LET s == SourceOf(self, path) IN
    IF DictHas(self.images, s.source)
    THEN [self |-> self, destination |-> DictItem(self.images, s.source)]
    ELSE LET directory == Append(self.output_folder, folder_name)
             counted == ~KeepsNames(self)
             n == IF DictHas(self.counters, directory)
                  THEN DictItem(self.counters, directory) ELSE 1
             new_name == IF counted THEN CounterName(n)
                         ELSE PathName(PathOf(s.source))
             destination == Append(directory, new_name)
         IN  [self |-> [self EXCEPT
                          !.counters = IF counted
                                       THEN DictSet(@, directory, n + 1)
                                       ELSE @,
                          !.images = IF s.matched
                                     THEN DictSet(@, s.source, destination)
                                     ELSE @],
              destination |-> destination]

\* pathlib.PurePosixPath("img") / "{}.jpg".format(name)
ThumbRelpath(name) == <<<<"i", "m", "g">>, name \o <<".", "j", "p", "g">>>>

\* ImageFolder.thumb: the folder after the call, the error raised if one is,
\* and the text returned. A source already in thumbs is looked up in images
\* (KeyError when it is not there) and relpath is then read unassigned
\* (UnboundLocalError).
ImageFolder_thumb(self, path, name) ==
    LET s == SourceOf(self, path) IN
    IF DictHas(self.thumbs, s.source)
    THEN [self |-> self,
          raised |-> IF DictHas(self.images, s.source)
                     THEN Some("UnboundLocalError") ELSE Some("KeyError"),
          value |-> None]
    ELSE LET relpath == ThumbRelpath(name)
             destination == self.assets_folder \o relpath
         IN  [self |-> [self EXCEPT
                          !.thumbs = IF s.matched
                                     THEN DictSet(@, s.source, destination)
                                     ELSE @],
              raised |-> None,
              value |-> Some(PathStr(relpath))]

\* ImageFolder.do_copy: the files written, in the order of their writing
do_copy(self) ==
    [i \in 1..Len(self.images) |->
        [src |-> self.images[i].k, dst |-> self.images[i].v,
         by |-> IF KeepsNames(self) THEN "_do_copy_vanilla"
                ELSE "_do_copy_convert"]]
    \o [i \in 1..Len(self.thumbs) |->
        [src |-> self.thumbs[i].k, dst |-> self.thumbs[i].v,
         by |-> "_do_copy_thumbs"]]

------------------------------------------------------------------------------
\* The image folder in a run of site_constructor's main(): get_post_bucket
\* calls thumb for the featured image of each post, post.write calls match
\* for each img tag of each post, do_copy ends the run.

\* Posts with a featured image that one run reads, at most.
MaxFeatured == 2
\* img tags that one run rewrites, at most.
MaxImgTags == 3

\* the match output of photo_match that make reads: two targets matched to
\* originals of one file name in two folders, and a target with no match
SiteMetadata ==
    [matches |->
        <<[path_target |-> <<"t", "/", "d", "/", "a">>,
           path_matched |-> Some(<<"o", "/", "1", "/", "x">>)],
          [path_target |-> <<"t", "/", "d", "/", "b">>,
           path_matched |-> Some(<<"o", "/", "2", "/", "x">>)],
          [path_target |-> <<"t", "/", "d", "/", "c">>,
           path_matched |-> None]>>]

\* self.path("photos"), self.path("assets")
PhotosPath == <<<<"o", "u", "t">>, <<"p", "h">>>>
AssetsPath == <<<<"o", "u", "t">>, <<"a", "s">>>>

\* photos.max_img_size and photos.max_file_size of config_site.toml
ImgSizes == {None, Some(<<800, 600>>)}
FileSizes == {None, Some(<<"2", "0", "0", "k", "b">>)}

\* the src of an img tag or of a featured image: three that the image bank
\* knows and one that it does not
SitePaths ==
    {<<"/", "p", "h", "/", "d", "/", "a">>,
     <<"/", "p", "h", "/", "d", "/", "b">>,
     <<"/", "p", "h", "/", "d", "/", "c">>,
     <<"/", "p", "h", "/", "d", "/", "z">>}

\* slugify(title) of the posts, and their folder_name "<date>-<slug>"
Slugs == {<<"u">>, <<"v">>}
FolderNames == {<<"1", "-", "u">>, <<"2", "-", "v">>}

InitSite ==
    /\ pc = "get_post_bucket"
    /\ cache = None
    /\ force_recreate_cache = TRUE
    /\ originals = EmptyBucket
    /\ added = <<>>
    /\ bucket = None
    /\ matched = <<>>
    /\ seen = <<>>
    /\ metadata = None
    /\ call = None
    /\ guessed = <<>>
    /\ \E max_img_size \in ImgSizes, max_file_size \in FileSizes :
          folder = Some(ImageFolder_make(SiteMetadata, PhotosPath, AssetsPath,
                                         max_img_size, max_file_size))
    /\ returned = <<>>
    /\ copied = None
    /\ index = None

CallsOf(op) == LET Is(c) == c.op = op IN SelectSeq(returned, Is)

\* PostBucket.make: self.site_env.folder.thumb(src, slugify(title)); an
\* error of thumb ends main
get_post_bucket_thumb(path, name) ==
    /\ pc = "get_post_bucket"
    /\ Len(CallsOf("thumb")) < MaxFeatured
    /\ LET r == ImageFolder_thumb(Value(folder), path, name) IN
       /\ folder' = Some(r.self)
       /\ returned' = Append(returned,
                             [op |-> "thumb", path |-> path, arg |-> name,
                              source |-> SourceOf(Value(folder), path),
                              raised |-> r.raised, value |-> r.value])
       /\ pc' = IF r.raised # None THEN "get_post_bucket_raised" ELSE pc
    /\ UNCHANGED <<copied, index>>
    /\ UNCHANGED photo_vars

\* PostBucket.make returns: main goes on to post.write()
get_post_bucket_return ==
    /\ pc = "get_post_bucket"
    /\ pc' = "post_write"
    /\ UNCHANGED site_vars
    /\ UNCHANGED photo_vars

\* ImageProcessor.run: self.folder.match(src, self.folder_name)
post_write_match(path, folder_name) ==
    /\ pc = "post_write"
    /\ Len(CallsOf("match")) < MaxImgTags
    /\ LET r == ImageFolder_match(Value(folder), path, folder_name) IN
       /\ folder' = Some(r.self)
       /\ returned' = Append(returned,
                             [op |-> "match", path |-> path,
                              arg |-> folder_name,
                              source |-> SourceOf(Value(folder), path),
                              raised |-> None,
                              value |-> Some(r.destination)])
    /\ UNCHANGED <<pc, copied, index>>
    /\ UNCHANGED photo_vars

\* env.folder.do_copy() after the last post
folder_do_copy ==
    /\ pc = "post_write"
    /\ copied' = Some(do_copy(Value(folder)))
    /\ pc' = "exit"
    /\ UNCHANGED <<folder, returned, index>>
    /\ UNCHANGED photo_vars

NextSite ==
    \/ \E path \in SitePaths, name \in Slugs : get_post_bucket_thumb(path, name)
    \/ get_post_bucket_return
    \/ \E path \in SitePaths, folder_name \in FolderNames :
          post_write_match(path, folder_name)
    \/ folder_do_copy

SpecSite == InitSite /\ [][NextSite]_vars

------------------------------------------------------------------------------
\* site_constructor.py: PostIndex.write.

\* self.env.config("posts_per_page", 8): the default
DefaultPostsPerPage == 8
\* itertools.islice(postit, 8): the posts taken for one page
PostsTakenPerPage == 8

\* Posts of the bucket, at most.
MaxPosts == 10
\* posts_per_page of config_site.toml, at most.
MaxPostsPerPage == 9

\* _post_index_path: the file of each page; 1 stands for the home url,
\* i + 2 for posts/page/<i + 2>.html
_post_index_path(nb_pages) ==
    <<1>> \o [i \in 1..(IF nb_pages >= 1 THEN nb_pages - 1 ELSE 0) |-> i + 1]

\* _index_pagination: the pages it yields, each with its file, next and prev
_index_pagination(nb_pages) ==
    LET paths == _post_index_path(nb_pages)
        At(k) == IF k <= Len(paths) THEN Some(paths[k]) ELSE None
    IN  [k \in 1..Len(paths) |->
            [filepath |-> paths[k],
             next |-> IF k = 1 THEN None ELSE Some(paths[k - 1]),
             prev |-> At(k + 1)]]

\* math.ceil(len(bucket) / posts_per_page)
NbPages(len, posts_per_page) == CeilDiv(len, posts_per_page)

\* list(itertools.islice(postit, 8)) with the iterator at position postit
Islice(posts, postit) ==
    SubSeq(posts, postit, Min2(postit + PostsTakenPerPage - 1, Len(posts)))

\* the posts of the bucket, sorted by date, the latest first: a post is
\* named by its rank
Buckets == {[i \in 1..n |-> i] : n \in 0..MaxPosts}

\* posts_per_page of the configuration: absent or a number
PostsPerPageConfigs == {None} \cup {Some(p) : p \in 0..MaxPostsPerPage}

InitIndex ==
    /\ pc = "pidx_write"
    /\ cache = None
    /\ force_recreate_cache = TRUE
    /\ originals = EmptyBucket
    /\ added = <<>>
    /\ bucket = None
    /\ matched = <<>>
    /\ seen = <<>>
    /\ metadata = None
    /\ call = None
    /\ guessed = <<>>
    /\ folder = None
    /\ returned = <<>>
    /\ copied = None
    /\ \E posts \in Buckets, config \in PostsPerPageConfigs :
          index = Some([posts |-> posts, config |-> config,
                        posts_per_page |-> None, nb_pages |-> None,
                        postit |-> 1, pages |-> <<>>])

\* write: posts_per_page, nb_pages and postit are set; the division by a
\* posts_per_page of 0 raises
pidx_write_start ==
    /\ pc = "pidx_write"
    /\ LET self == Value(index)
           posts_per_page == IF self.config = None THEN DefaultPostsPerPage
                             ELSE Value(self.config)
       IN  IF posts_per_page = 0
           THEN /\ pc' = "pidx_write_raised"
                /\ index' = Some([self EXCEPT
                                    !.posts_per_page = Some(posts_per_page)])
           ELSE /\ pc' = "pidx_write_pages"
                /\ index' = Some([self EXCEPT
                                    !.posts_per_page = Some(posts_per_page),
                                    !.nb_pages =
                                        Some(NbPages(Len(self.posts),
                                                     posts_per_page))])
    /\ UNCHANGED <<folder, returned, copied>>
    /\ UNCHANGED photo_vars

\* write: one turn of the loop over _index_pagination, the page is written
pidx_write_page ==
    /\ pc = "pidx_write_pages"
    /\ LET self == Value(index)
           pagination == _index_pagination(Value(self.nb_pages))
           k == Len(self.pages) + 1
           posts == Islice(self.posts, self.postit)
       IN  /\ k <= Len(pagination)
           /\ index' = Some([self EXCEPT
                               !.postit = @ + Len(posts),
                               !.pages = Append(@,
                                   [filepath |-> pagination[k].filepath,
                                    paginator |->
                                        [next |-> pagination[k].next,
                                         prev |-> pagination[k].prev],
                                    posts |-> posts])])
    /\ UNCHANGED <<pc, folder, returned, copied>>
    /\ UNCHANGED photo_vars

\* write: _index_pagination is exhausted
pidx_write_return ==
    /\ pc = "pidx_write_pages"
    /\ Len(Value(index).pages) =
          Len(_index_pagination(Value(Value(index).nb_pages)))
    /\ pc' = "pidx_written"
    /\ UNCHANGED site_vars
    /\ UNCHANGED photo_vars

NextIndex ==
    \/ pidx_write_start
    \/ pidx_write_page
    \/ pidx_write_return

SpecIndex == InitIndex /\ [][NextIndex]_vars

------------------------------------------------------------------------------
\* Properties.

Area(imgi) == imgi.size[1] * imgi.size[2]

\* the bucket list match looked a recorded target up in: None or the list
CandidatesOf(i) == get(Value(bucket), matched[i][1].hash_)

\* the positions of the candidates of the largest area
LargestOf(cs) ==
    {k \in 1..Len(cs) : \A x \in 1..Len(cs) : Area(cs[x]) <= Area(cs[k])}

NameDistance(i, c) == damerau_levenshtein_distance(matched[i][1].name, c.name)

\* C1: a target whose hash has two or more candidates is matched to one of
\* them, and to one whose area width*height is the largest among them (also
\* when every area is 0); a candidate of smaller area is never returned.
C1_LargestAreaWins ==
    \A i \in 1..Len(matched) :
        LET cs == CandidatesOf(i)
            m == matched[i][2]
        IN  (cs # None /\ Len(Value(cs)) >= 2) =>
                /\ m # None
                /\ \E k \in LargestOf(Value(cs)) : Value(cs)[k] = Value(m)

\* three candidates of three areas, the largest neither first nor last
C1_Witness ==
    \E i \in 1..Len(matched) :
        LET cs == CandidatesOf(i) IN
        /\ cs # None
        /\ Len(Value(cs)) = 3
        /\ Area(Value(cs)[1]) > 0
        /\ Area(Value(cs)[2]) > Area(Value(cs)[1])
        /\ Area(Value(cs)[3]) < Area(Value(cs)[1])
        /\ matched[i][2] = Some(Value(cs)[2])

\* C2: when two or more candidates share the largest area, the match is one
\* of them whose Damerau-Levenshtein distance to the target's name is the
\* smallest among them; candidates of smaller area are not compared.
C2_NearestNameWins ==
    \A i \in 1..Len(matched) :
        LET cs == CandidatesOf(i)
            m == matched[i][2]
        IN  (cs # None /\ Cardinality(LargestOf(Value(cs))) >= 2) =>
                /\ m # None
                /\ \E k \in LargestOf(Value(cs)) : Value(cs)[k] = Value(m)
                /\ \A k \in LargestOf(Value(cs)) :
                      NameDistance(i, Value(m)) <= NameDistance(i, Value(cs)[k])

\* a smaller candidate with the target's very name comes first, then two of
\* the largest area, the nearer name last: the last one is the match
C2_Witness ==
    \E i \in 1..Len(matched) :
        LET cs == CandidatesOf(i) IN
        /\ cs # None
        /\ Len(Value(cs)) = 3
        /\ LargestOf(Value(cs)) = {2, 3}
        /\ NameDistance(i, Value(cs)[1]) = 0
        /\ NameDistance(i, Value(cs)[2]) > NameDistance(i, Value(cs)[3])
        /\ matched[i][2] = Some(Value(cs)[3])

\* C3: a target whose hash has exactly one bucket entry is matched to that
\* entry, whatever the names and the sizes are.
C3_SingleEntryReturned ==
    \A i \in 1..Len(matched) :
        LET cs == CandidatesOf(i) IN
        (cs # None /\ Len(Value(cs)) = 1) => matched[i][2] = Some(Value(cs)[1])

\* the single entry has area 0 and neither the name nor the size of the target
C3_Witness ==
    \E i \in 1..Len(matched) :
        LET cs == CandidatesOf(i) IN
        /\ cs # None
        /\ Len(Value(cs)) = 1
        /\ Area(Value(cs)[1]) = 0
        /\ Value(cs)[1].name # matched[i][1].name
        /\ Value(cs)[1].size # matched[i][1].size
        /\ matched[i][2] = Some(Value(cs)[1])

OptionalIso(date) == IF date = None THEN None ELSE Some(isoformat(Value(date)))

\* C4: a target whose hash is not in the bucket is recorded with no match,
\* and its written record has no path_matched, no size_matched and the
\* target's own date (none when the target has none).
C4_NoCandidateIsUnmatched ==
    /\ \A i \in 1..Len(matched) :
          CandidatesOf(i) = None => matched[i][2] = None
    /\ metadata # None =>
          /\ Len(Value(metadata).matches) = Len(matched)
          /\ \A i \in 1..Len(matched) :
                CandidatesOf(i) = None =>
                    LET e == Value(metadata).matches[i] IN
                    /\ e.path_matched = None
                    /\ e.size_matched = None
                    /\ e.date = OptionalIso(matched[i][1].date)

\* a dated target without candidates, written beside a matched one, while
\* the bucket holds dated images
C4_Witness ==
    /\ metadata # None
    /\ \E i, j \in 1..Len(matched) :
          /\ CandidatesOf(i) = None
          /\ matched[i][1].date # None
          /\ Value(metadata).matches[i].date # None
          /\ matched[j][2] # None
          /\ Value(matched[j][2]).date # None

\* C5: the written date of a matched record is the matched image's date
\* when it has one, else the target's date, else none.
C5_MatchedDateFirst ==
    metadata # None =>
        \A i \in 1..Len(matched) :
            LET t == matched[i][1]
                m == matched[i][2]
                e == Value(metadata).matches[i]
            IN  m # None =>
                    /\ Value(m).date # None =>
                          e.date = OptionalIso(Value(m).date)
                    /\ (Value(m).date = None /\ t.date # None) =>
                          e.date = OptionalIso(t.date)
                    /\ (Value(m).date = None /\ t.date = None) =>
                          e.date = None

\* a matched record whose two images are dated differently
C5_Witness ==
    /\ metadata # None
    /\ \E i \in 1..Len(matched) :
          /\ matched[i][2] # None
          /\ Value(matched[i][2]).date # None
          /\ matched[i][1].date # None
          /\ OptionalIso(matched[i][1].date)
                # OptionalIso(Value(matched[i][2]).date)
          /\ Value(metadata).matches[i].date
                = OptionalIso(Value(matched[i][2]).date)

\* the places <<i, j>> of the bucket that hold imgi
PlacesOf(b, imgi) ==
    UNION {{<<i, j>> : j \in {x \in 1..Len(b[i].imgis) :
                                   b[i].imgis[x] = imgi}} :
              i \in 1..Len(b)}

\* the images added so far that have hash h, in the order of their adding
AddedWithHash(h) ==
    LET HasHash(imgi) == imgi.hash_ = h IN SelectSeq(added, HasHash)

\* C6: after any sequence of add calls the bucket holds every image added
\* exactly once, in the list of its own hash, each list in the order of the
\* adding, no list empty and no hash twice.
C6_EveryAddedImageKept ==
    /\ \A k \in 1..Len(added) :
          /\ Cardinality(PlacesOf(originals, added[k])) = 1
          /\ \A p \in PlacesOf(originals, added[k]) :
                originals[p[1]].h = added[k].hash_
    /\ \A i \in 1..Len(originals) :
          /\ originals[i].imgis # <<>>
          /\ originals[i].imgis = AddedWithHash(originals[i].h)
          /\ \A j \in 1..Len(originals) : originals[j].h = originals[i].h => i = j
    /\ Len(BucketValues(originals)) = Len(added)

\* a third image added to a hash that already has one, another hash between
C6_Witness ==
    /\ Len(added) = 3
    /\ added[1].hash_ = added[3].hash_
    /\ added[2].hash_ # added[1].hash_
    /\ Len(originals) = 2
    /\ originals[1].imgis = <<added[1], added[3]>>

SameOptionalDate(a, b) ==
    IF a = None \/ b = None THEN a = b ELSE SameInstant(Value(a), Value(b))

SameImage(x, y) ==
    /\ x.path = y.path
    /\ x.name = y.name
    /\ SameOptionalDate(x.date, y.date)
    /\ x.hash_ = y.hash_
    /\ x.quality = y.quality
    /\ x.size = y.size

SameBucket(x, y) ==
    /\ Len(x) = Len(y)
    /\ \A i \in 1..Len(x) :
          /\ x[i].h = y[i].h
          /\ Len(x[i].imgis) = Len(y[i].imgis)
          /\ \A j \in 1..Len(x[i].imgis) : SameImage(x[i].imgis[j], y[i].imgis[j])

\* the store file is the one create_metadata saved, and it has been loaded
SavedAndLoaded == bucket # None /\ cache = Some(save(originals))

\* C7: the bucket loaded from the document that save wrote for a non-empty
\* bucket has the same hashes, the same images under each hash (path, name,
\* date, hash, quality, size, absent date and quality included) and the same
\* order within each list.
C7_LoadOfSaveIsSame ==
    (originals # EmptyBucket /\ SavedAndLoaded) =>
        SameBucket(Value(bucket), originals)

\* a collision group of two and another hash, with dates and qualities both
\* present and absent
C7_Witness ==
    /\ SavedAndLoaded
    /\ Len(originals) = 2
    /\ Len(originals[1].imgis) = 2
    /\ originals[1].imgis[1].date = None
    /\ originals[1].imgis[1].quality = None
    /\ originals[1].imgis[2].date # None
    /\ originals[1].imgis[2].quality # None
    /\ Value(bucket)[1].imgis[2].date # None

LoadNotReached ==
    pc \in {"main", "create_metadata", "create_metadata_raised", "load_bucket"}

\* C8: once load has read a document of another version than "1.0", main
\* has ended in load's error: there is no bucket, no target has been
\* matched and no match output is written.
C8_BadVersionIsFatal ==
    (cache # None /\ Value(cache).version # API /\ ~LoadNotReached) =>
        /\ pc = "load_bucket_raised"
        /\ bucket = None
        /\ matched = <<>>
        /\ seen = <<>>
        /\ metadata = None

\* load has raised on a document of another version that holds images
C8_Witness ==
    /\ pc = "load_bucket_raised"
    /\ Value(cache).version = OldAPI
    /\ Len(Value(cache).images) = 2

\* C9: the match output written after a pass holds one entry per target
\* path visited, in the order of the visits.
C9_OneEntryPerTargetInOrder ==
    metadata # None =>
        /\ Len(Value(metadata).matches) = Len(seen)
        /\ \A i \in 1..Len(seen) :
              Value(metadata).matches[i].path_target = PathStr(seen[i])

\* two targets written, the first unmatched and of the greater hash, the
\* second matched
C9_Witness ==
    /\ metadata # None
    /\ Len(seen) = 2
    /\ seen[1] # seen[2]
    /\ matched[1][2] = None
    /\ matched[2][2] # None
    /\ DigitsToInt(matched[1][1].hash_, 2, 0) > DigitsToInt(matched[2][1].hash_, 2, 0)
    /\ Value(metadata).matches[2].path_matched # None

\* the dates the sources of a call can give: the embedded metadata (an
\* exif text that is not empty and parses), the filename's matches that
\* parse, the path parts whose folder match parses
MetadataDates ==
    LET t == exif_date_of(Value(call).image) IN
    IF t = None \/ t = Some(<<>>) THEN {}
    ELSE {parse_or_pass(Value(t))} \ {None}

FilenameDates ==
    LET ms == FindIter(PathName(Value(call).path), 1) IN
    {parse_or_pass(MatchText(ms[i])) : i \in 1..Len(ms)} \ {None}

FolderDates ==
    LET path == Value(call).path
        hits == {i \in 1..Len(path) : FolderSearch(path[i], 1) # None}
    IN  {parse_or_pass(Value(FolderSearch(path[i], 1))) : i \in hits} \ {None}

FailedMetadata ==
    LET t == exif_date_of(Value(call).image) IN
    t # None /\ t # Some(<<>>) /\ parse_or_pass(Value(t)) = None

FailedFilenameMatches ==
    LET ms == FindIter(PathName(Value(call).path), 1) IN
    {i \in 1..Len(ms) : parse_or_pass(MatchText(ms[i])) = None}

FailedFolderParts ==
    LET path == Value(call).path IN
    {i \in 1..Len(path) :
        /\ FolderSearch(path[i], 1) # None
        /\ parse_or_pass(Value(FolderSearch(path[i], 1))) = None}

\* C11: a date-looking value that fails validation never ends guess_date:
\* the call returns, its result is a date of the first level that has a
\* candidate that parses, whatever failed before it, and the result is None
\* only when every candidate of every level fails.
C11_FailedCandidateFallsThrough ==
    guessed # <<>> =>
        LET date == guessed[1] IN
        /\ pc = "guess_date_returned"
        /\ date = None <=>
              (MetadataDates = {} /\ FilenameDates = {} /\ FolderDates = {})
        /\ (FailedMetadata /\ FilenameDates # {}) => date \in FilenameDates
        /\ (MetadataDates = {} /\ FailedFilenameMatches # {}
              /\ FilenameDates # {}) => date \in FilenameDates

\* the exif text has month 13 and so has the last match of the filename:
\* the date is the one of the filename's earlier match
C11_Witness ==
    /\ guessed # <<>>
    /\ FailedMetadata
    /\ FailedFilenameMatches # {}
    /\ guessed[1] # None
    /\ Value(guessed[1]).ymd = <<2019, 5, 2>>

\* C12: a file that cannot be decoded or hashed is skipped and its pass goes
\* on to write its output: a run that an error has ended has ended at the
\* version check of load and nowhere else.
C12_OnlyVersionMismatchEndsTheRun ==
    pc \notin {"create_metadata_raised", "match_images_raised"}

\* the positions of the candidates that both stages leave: of the largest
\* area, and of the smallest name distance among those
RemainingOf(i, cs) ==
    {k \in LargestOf(cs) :
        \A x \in LargestOf(cs) : NameDistance(i, cs[k]) <= NameDistance(i, cs[x])}

\* the positions in added of an image
AddedAt(imgi) == {k \in 1..Len(added) : added[k] = imgi}

\* C13: when the area stage and the name stage leave two or more
\* candidates, the match is the one of them that comes first in the bucket
\* list, which is the one added to the bucket first; and two targets of one
\* hash and one name looked up in the same bucket get the same match.
C13_EarliestInsertedWins ==
    /\ \A i \in 1..Len(matched) :
          LET cs == CandidatesOf(i)
              m == matched[i][2]
          IN  (cs # None /\ Cardinality(RemainingOf(i, Value(cs))) >= 2) =>
                  LET first == CHOOSE k \in RemainingOf(i, Value(cs)) :
                                   \A x \in RemainingOf(i, Value(cs)) : k <= x
                  IN  /\ m = Some(Value(cs)[first])
                      /\ SavedAndLoaded =>
                            \A x \in RemainingOf(i, Value(cs)) \ {first} :
                                \A a \in AddedAt(Value(m)) :
                                    \A b \in AddedAt(Value(cs)[x]) : a < b
    /\ \A i, j \in 1..Len(matched) :
          (/\ matched[i][1].hash_ = matched[j][1].hash_
           /\ matched[i][1].name = matched[j][1].name) =>
              matched[i][2] = matched[j][2]

\* a smaller candidate first, then two of the largest area and of one name:
\* the second of the list is the match, and a second target of the same
\* name has been given it too
C13_Witness ==
    /\ SavedAndLoaded
    /\ Len(matched) = 2
    /\ matched[1][1].name = matched[2][1].name
    /\ LET cs == CandidatesOf(1) IN
       /\ cs # None
       /\ Len(Value(cs)) = 3
       /\ RemainingOf(1, Value(cs)) = {2, 3}
       /\ AddedAt(Value(cs)[2]) # {}
       /\ AddedAt(Value(cs)[3]) # {}
       /\ matched[1][2] = Some(Value(cs)[2])
       /\ matched[2][2] = Some(Value(cs)[2])

\* the matches of the call's filename, in the order of their occurrence
FilenameMatches == FindIter(PathName(Value(call).path), 1)

\* the positions of the filename's matches that parse
ParsingMatches ==
    {i \in 1..Len(FilenameMatches) :
        parse_or_pass(MatchText(FilenameMatches[i])) # None}

\* C14: when the metadata gives no date and the filename has several
\* matches, the result is the date of the last occurring match that parses:
\* an earlier match gives the date only when every later one fails.
C14_LastParsingMatchWins ==
    (guessed # <<>> /\ MetadataDates = {} /\ Len(FilenameMatches) >= 2
       /\ ParsingMatches # {}) =>
        LET last == CHOOSE i \in ParsingMatches :
                        \A x \in ParsingMatches : x <= i
        IN  guessed[1] = parse_or_pass(MatchText(FilenameMatches[last]))

\* two matches that parse to two dates: the date is the one of the second
C14_Witness ==
    /\ guessed # <<>>
    /\ MetadataDates = {}
    /\ ParsingMatches = {1, 2}
    /\ Value(parse_or_pass(MatchText(FilenameMatches[1]))).ymd = <<2019, 5, 2>>
    /\ guessed[1] # None
    /\ Value(guessed[1]).ymd = <<2020, 1, 1>>

\* the year, month and day that a text YYYY_MM_DD names
FolderYmd(text) ==
    <<Number(Part(text, 1, 4)), Number(Part(text, 6, 7)),
      Number(Part(text, 9, 10))>>

\* the folders above the call's file, the outermost first
Ancestors == SubSeq(Value(call).path, 1, Len(Value(call).path) - 1)

\* the positions of the ancestors that hold a YYYY_MM_DD naming a date
DatedAncestors ==
    {i \in 1..Len(Ancestors) :
        /\ FolderSearch(Ancestors[i], 1) # None
        /\ ValidDate(FolderYmd(Value(FolderSearch(Ancestors[i], 1))))}

\* C15: when neither the metadata nor the filename gives a date, the result
\* is the date that the innermost ancestor folder with a valid YYYY_MM_DD
\* names, and None when no ancestor has one: the file's own name is not a
\* candidate of the folder stage.
C15_InnermostDatedFolderWins ==
    (guessed # <<>> /\ MetadataDates = {} /\ FilenameDates = {}) =>
        IF DatedAncestors = {} THEN guessed[1] = None
        ELSE LET inner == CHOOSE i \in DatedAncestors :
                              \A x \in DatedAncestors : x <= i
             IN  /\ guessed[1] # None
                 /\ Value(guessed[1]).ymd =
                       FolderYmd(Value(FolderSearch(Ancestors[inner], 1)))

\* the match calls made so far whose source the image bank gave
MatchedCalls ==
    LET Is(c) == c.op = "match" /\ c.source.matched IN SelectSeq(returned, Is)

\* the files that do_copy wrote from self.images
ImagesCopied ==
    LET Is(w) == w.by # "_do_copy_thumbs" IN SelectSeq(Value(copied), Is)

\* C17: after any sequence of match calls, whether the original names are
\* kept or the per-folder counter names the files, two calls for one matched
\* source have returned one destination, two calls for two matched sources
\* have returned two destinations, and do_copy has written no destination
\* from two sources.
C17_OneDestinationPerSource ==
    /\ \A i, j \in 1..Len(MatchedCalls) :
          (MatchedCalls[i].source.source = MatchedCalls[j].source.source)
              <=> (MatchedCalls[i].value = MatchedCalls[j].value)
    /\ copied # None =>
          \A i, j \in 1..Len(ImagesCopied) :
              ImagesCopied[i].dst = ImagesCopied[j].dst =>
                  ImagesCopied[i].src = ImagesCopied[j].src

\* C18: every call thumb(path, name) has returned the text img/<name>.jpg
\* and none has raised, a call for a source that an earlier call has
\* registered included.
C18_ThumbAlwaysReturns ==
    \A i \in 1..Len(returned) :
        returned[i].op = "thumb" =>
            /\ returned[i].raised = None
            /\ returned[i].value =
                  Some(<<"i", "m", "g", "/">> \o returned[i].arg
                         \o <<".", "j", "p", "g">>)

\* C16: for N >= 1 posts and posts_per_page P >= 1, the pages that write
\* has produced are ceil(N / P) in number and page k lists the posts
\* (k - 1) * P + 1 to k * P of the date-sorted sequence (the last page up to
\* N): every post is on one page and no page lists more than P posts.
C16_PagesPartitionThePosts ==
    (pc = "pidx_written" /\ Len(Value(index).posts) >= 1) =>
        LET self == Value(index)
            N == Len(self.posts)
            P == Value(self.posts_per_page)
        IN  /\ Len(self.pages) = (N + P - 1) \div P
            /\ \A k \in 1..Len(self.pages) :
                  self.pages[k].posts =
                      SubSeq(self.posts, (k - 1) * P + 1, Min2(k * P, N))

====
